---- MODULE Spec2Model ----
(***************************************************************************)
(* jubtools: the unified database access layer (jubtools.db, the Facade),  *)
(* its two Backend Drivers (jubtools.psql = ClientServer, jubtools.sqlt =  *)
(* Embedded) and the ClientServer connection-scoping middleware.           *)
(*                                                                         *)
(* jubtools/db.py, psql.py and sqlt.py are not among the source files; the *)
(* Facade is modelled from what tests/test_db.py asserts of it, branch by  *)
(* branch, and from spec.md where no test pins a branch. The drivers and   *)
(* the pool are modelled from spec.md sections 4.2, 4.4 and 5.             *)
(***************************************************************************)
EXTENDS Integers, Sequences, FiniteSets, TLC

\* ------------------------------------------------------------------ bounds
MaxRecs == 2        \* longest record sequence a driver returns
PoolSize == 2       \* connections in the ClientServer pool
NumRequests == 3    \* concurrent requests
MaxId == 2          \* ids of the records a Row wraps

\* ------------------------------------------------------------- value sets
None == "None"
SQLITE == "SQLITE"
POSTGRES == "POSTGRES"
DBModule == {SQLITE, POSTGRES}

Names == {"q1", "q2"}
Sqls == {"s1", "s2"}
Params == {"p0", "p1"}
NoSql == "NoSql"
NoArg == "-"

\* backend-native records, as a driver returns them
RecordSet == {[id |-> 1, name |-> "a"], [id |-> 2, name |-> "b"]}
RecordSeqs == UNION {[1..n -> RecordSet] : n \in 0..MaxRecs}

\* the request contexts a handler passes to transaction()
Requests == 1..NumRequests
Conns == 1..PoolSize
NoConn == 0

VARIABLES
    db_module,      \* db._db_module: None, SQLITE or POSTGRES
    psql_saved,     \* the ClientServer driver's registry: name -> SQL text or NoSql
    sqlt_saved,     \* sqlt._SAVED_SQL: name -> SQL text or NoSql
    call,           \* the most recent Facade call: op, arguments, db_module when called
    outcome,        \* what that call returned or raised
    driver_calls,   \* the driver operations that call invoked, in order
    sql_run,        \* the SQL texts that call executed against the backend
    last_store,     \* history: per name, the SQL text of the most recent store call
    last_store_cs,  \* history: the same, over the store calls made with POSTGRES active
    shut_since_init,\* history: a shutdown call has happened since the last init
    pool_free,      \* ClientServer pool: the connections available for checkout
    pc,             \* per request: its position in the connection-scoping middleware
    conn,           \* per request: the connection on its request-scoped state
    exit_path,      \* per request: how its handler ended
    row_objs,           \* db.Row objects held by a handler, each wrapping a record
    row_access,     \* the most recent read access made on a Row
    row_result,     \* what that access returned
    apps,           \* the FastAPI applications built by create_fastapi_app
    APP_ENV,        \* systemtools.APP_ENV
    APP_VERSION,    \* systemtools.APP_VERSION
    boot_result,    \* what the most recent create_fastapi_app call returned or raised
    psql_inited,    \* psql.init has run as a startup event handler
    handler_app,    \* the application whose handler made the most recent Facade call
    health_resp,    \* the most recent answer to GET /health
    timer_pc,       \* TimerMiddleware.__call__: where the most recent call is
    timer_scope,    \* the scope of that call
    status_code,    \* its status_code local, as the END line prints it
    log_lines,      \* the lines that call has logged, in order
    app_send,       \* the send callable it handed to the wrapped application
    app_msgs,       \* the messages the wrapped application has sent, in order
    sent_msgs,      \* the messages that reached the caller's send, in order
    app_exit,       \* how the wrapped application finished
    CONFIG,         \* config.CONFIG
    cfg_files,      \* the base and env files config.init has loaded
    cfg_get,        \* the full_key of the most recent config.get call
    cfg_result      \* what that call returned or raised

facade_vars == <<db_module, psql_saved, sqlt_saved, call, outcome, driver_calls,
                 sql_run, last_store, last_store_cs, shut_since_init>>
pool_vars == <<pool_free, pc, conn, exit_path>>
row_vars == <<row_objs, row_access, row_result>>
app_vars == <<apps, APP_ENV, APP_VERSION, boot_result, psql_inited, handler_app,
              health_resp>>
timer_vars == <<timer_pc, timer_scope, status_code, log_lines, app_send, app_msgs,
                sent_msgs, app_exit>>
config_vars == <<CONFIG, cfg_files, cfg_get, cfg_result>>
ext_vars == <<row_vars, app_vars, timer_vars, config_vars>>
vars == <<facade_vars, pool_vars, ext_vars>>

\* --------------------------------------------------------------- results
Ok(rows, val) == [kind |-> "ok", msg |-> "", rows |-> rows, val |-> val]
Raise(kind, msg) == [kind |-> kind, msg |-> msg, rows |-> <<>>, val |-> NoArg]

NotInitialized == Raise("DatabaseError", "not initialized")
SqliteExecuteNotImplemented == Raise("DatabaseError", "SQLite execute function not implemented")
SqliteTransactionNotImplemented == Raise("DatabaseError", "SQLite transaction function not implemented")
NotFound == Raise("NotFoundError", "")
BackendFailure == Raise("BackendError", "")

Call(op, a1, a2) == [op |-> op, a1 |-> a1, a2 |-> a2, active |-> db_module]
DriverCall(drv, op, a1, a2, flag, ret) ==
    [drv |-> drv, op |-> op, a1 |-> a1, a2 |-> a2, flag |-> flag, ret |-> ret]

NoCall == [op |-> "none", a1 |-> NoArg, a2 |-> NoArg, active |-> None]

\* ------------------------------------------------------------------- Row
Row(record) == [row_data |-> record]

WrapRows(records) == [i \in 1..Len(records) |-> Row(records[i])]

\* --------------------------------------------------------------- drivers
DriverOf(m) == IF m = POSTGRES THEN "psql" ELSE "sqlt"

\* mutant: insert-only, a stored name is not overwritten
Upsert_InsertOnly(saved, name, sql) ==
    IF saved[name] = NoSql THEN [saved EXCEPT ![name] = sql] ELSE saved

\* Query Registry: store is an unconditional upsert
Upsert(saved, name, sql) == [saved EXCEPT ![name] = sql]

\* Query Registry: resolve gives the stored text, or NoSql when absent
Resolve(saved, name) == saved[name]

\* mutant: a missing name is run as an empty statement instead of being refused
PsqlExecuteAnswers_NoLookupCheck(saved, name, flag) ==
    {[res |-> Ok(<<>>, NoArg), recs |-> <<>>, run |-> <<Resolve(saved, name)>>]}

\* ClientServer execute: what the driver may answer for (name, params, flag)
\* - NotFound without running anything when the name is not registered,
\* - else the resolved SQL is run, and the backend answers with records
\*   (none when the flag is false) or with a backend-native failure.
PsqlExecuteAnswers(saved, name, flag) ==
    IF Resolve(saved, name) = NoSql
    THEN {[res |-> NotFound, recs |-> <<>>, run |-> <<>>]}
    ELSE {[res |-> Ok(<<>>, NoArg), recs |-> r, run |-> <<Resolve(saved, name)>>] :
              r \in IF flag THEN RecordSeqs ELSE {<<>>}}
         \cup {[res |-> BackendFailure, recs |-> <<>>, run |-> <<Resolve(saved, name)>>]}

\* ClientServer execute_sql: the SQL text is run as given
PsqlExecuteSqlAnswers(sql) ==
    {[res |-> Ok(<<>>, NoArg), recs |-> r, run |-> <<sql>>] : r \in RecordSeqs}
    \cup {[res |-> BackendFailure, recs |-> <<>>, run |-> <<sql>>]}

\* ---------------------------------------------------------------- Facade
Finish(c, out, dcs, run) ==
    /\ call' = c
    /\ outcome' = out
    /\ driver_calls' = dcs
    /\ sql_run' = run

\* mutant: the first activation wins, a later init keeps the active backend
init_KeepFirst(b) ==
    /\ db_module' = IF db_module = None THEN b ELSE db_module
    /\ shut_since_init' = FALSE
    /\ Finish(Call("init", b, NoArg), Ok(<<>>, NoArg), <<>>, <<>>)
    /\ UNCHANGED <<psql_saved, sqlt_saved, last_store, last_store_cs, pool_vars, ext_vars>>

\* db.init(db_module): records the backend; POSTGRES returns psql.init()
init(b) ==
    /\ db_module' = b
    /\ shut_since_init' = FALSE
    /\ IF b = POSTGRES
       THEN Finish(Call("init", b, NoArg), Ok(<<>>, "psql.init()"),
                   <<DriverCall("psql", "init", NoArg, NoArg, FALSE, <<>>)>>, <<>>)
       ELSE Finish(Call("init", b, NoArg), Ok(<<>>, NoArg), <<>>, <<>>)
    /\ UNCHANGED <<psql_saved, sqlt_saved, last_store, last_store_cs, pool_vars, ext_vars>>

\* mutant: store always goes to the ClientServer driver
StoreCalls_AlwaysPsql(m, name, sql) ==
    <<DriverCall("psql", "store", name, sql, FALSE, <<>>)>>

\* mutant: store without the active-backend check
StoreOutcome_NoCheck(m) == Ok(<<>>, NoArg)

\* db.store(name, sql): the driver calls it makes, by active backend
StoreCalls(m, name, sql) ==
    IF m = None THEN <<>>
    ELSE <<DriverCall(DriverOf(m), "store", name, sql, FALSE, <<>>)>>

StoreOutcome(m) == IF m = None THEN NotInitialized ELSE Ok(<<>>, NoArg)

store(name, sql) ==
    /\ Finish(Call("store", name, sql), StoreOutcome(db_module),
              StoreCalls(db_module, name, sql), <<>>)
    /\ psql_saved' = IF db_module = POSTGRES THEN Upsert(psql_saved, name, sql)
                     ELSE psql_saved
    /\ sqlt_saved' = IF db_module = SQLITE THEN Upsert(sqlt_saved, name, sql)
                     ELSE sqlt_saved
    /\ last_store' = [last_store EXCEPT ![name] = sql]
    /\ last_store_cs' = IF db_module = POSTGRES
                        THEN [last_store_cs EXCEPT ![name] = sql]
                        ELSE last_store_cs
    /\ UNCHANGED <<db_module, shut_since_init, pool_vars, ext_vars>>

\* db.get_active_module(), db.is_initialized()
get_active_module == db_module

is_initialized == db_module /= None

\* db.get_middleware(): the active driver's ConnMiddleware class
MiddlewareOf(m) == IF m = POSTGRES THEN "psql.ConnMiddleware" ELSE "sqlt.ConnMiddleware"

\* mutant: get_middleware without the active-backend check
GetMiddlewareOutcome_NoCheck(m) == Ok(<<>>, MiddlewareOf(m))

GetMiddlewareOutcome(m) == IF m = None THEN NotInitialized ELSE Ok(<<>>, MiddlewareOf(m))

get_middleware ==
    /\ Finish(Call("get_middleware", NoArg, NoArg), GetMiddlewareOutcome(db_module),
              <<>>, <<>>)
    /\ UNCHANGED <<db_module, psql_saved, sqlt_saved, last_store, last_store_cs,
                   shut_since_init, pool_vars, ext_vars>>

\* mutant: the Facade asks the driver not to return rows
ExecuteFlag_False == FALSE

\* db.execute(name, params): the flag the Facade hands to the driver's execute
ExecuteFlag == TRUE

\* db.execute with the ClientServer backend active: one call of psql.execute,
\* each record it returns wrapped as a Row
ExecutePostgres(name, params) ==
    \E ans \in PsqlExecuteAnswers(psql_saved, name, ExecuteFlag) :
        Finish(Call("execute", name, params),
               IF ans.res.kind = "ok" THEN Ok(WrapRows(ans.recs), NoArg) ELSE ans.res,
               <<DriverCall("psql", "execute", name, params, ExecuteFlag, ans.recs)>>,
               ans.run)

\* mutant: the Embedded backend runs the stored query like the ClientServer one
ExecuteSqlite_Dispatch(name, params) ==
    \E recs \in RecordSeqs :
        Finish(Call("execute", name, params), Ok(WrapRows(recs), NoArg),
               <<DriverCall("sqlt", "execute", name, params, TRUE, recs)>>,
               <<Resolve(sqlt_saved, name)>>)

\* db.execute with the Embedded backend active
ExecuteSqlite(name, params) ==
    Finish(Call("execute", name, params), SqliteExecuteNotImplemented, <<>>, <<>>)

\* db.execute, db.execute_sql, db.transaction with no backend active
RaiseNotInitialized(op, a1, a2) ==
    Finish(Call(op, a1, a2), NotInitialized, <<>>, <<>>)

execute(name, params) ==
    /\ CASE db_module = POSTGRES -> ExecutePostgres(name, params)
         [] db_module = SQLITE -> ExecuteSqlite(name, params)
         [] OTHER -> RaiseNotInitialized("execute", name, params)
    /\ UNCHANGED <<db_module, psql_saved, sqlt_saved, last_store, last_store_cs,
                   shut_since_init, pool_vars, ext_vars>>

\* db.execute_sql(sql, params) with a backend active: the driver's execute_sql,
\* each record wrapped as a Row
ExecuteSqlPostgres(sql, params) ==
    \E ans \in PsqlExecuteSqlAnswers(sql) :
        Finish(Call("execute_sql", sql, params),
               IF ans.res.kind = "ok" THEN Ok(WrapRows(ans.recs), NoArg) ELSE ans.res,
               <<DriverCall("psql", "execute_sql", sql, params, FALSE, ans.recs)>>,
               ans.run)

ExecuteSqlSqlite(sql, params) ==
    \E ans \in PsqlExecuteSqlAnswers(sql) :
        Finish(Call("execute_sql", sql, params),
               IF ans.res.kind = "ok" THEN Ok(WrapRows(ans.recs), NoArg) ELSE ans.res,
               <<DriverCall("sqlt", "execute_sql", sql, params, FALSE, ans.recs)>>,
               ans.run)

execute_sql(sql, params) ==
    /\ CASE db_module = POSTGRES -> ExecuteSqlPostgres(sql, params)
         [] db_module = SQLITE -> ExecuteSqlSqlite(sql, params)
         [] OTHER -> RaiseNotInitialized("execute_sql", sql, params)
    /\ UNCHANGED <<db_module, psql_saved, sqlt_saved, last_store, last_store_cs,
                   shut_since_init, pool_vars, ext_vars>>

\* db.transaction(req)
ReqCtx(r) == ToString(r)

TransactionPostgres(r) ==
    Finish(Call("transaction", ReqCtx(r), NoArg), Ok(<<>>, "psql.transaction"),
           <<DriverCall("psql", "transaction", ReqCtx(r), NoArg, FALSE, <<>>)>>, <<>>)

TransactionSqlite(r) ==
    Finish(Call("transaction", ReqCtx(r), NoArg), SqliteTransactionNotImplemented,
           <<>>, <<>>)

transaction(r) ==
    /\ CASE db_module = POSTGRES -> TransactionPostgres(r)
         [] db_module = SQLITE -> TransactionSqlite(r)
         [] OTHER -> RaiseNotInitialized("transaction", ReqCtx(r), NoArg)
    /\ UNCHANGED <<db_module, psql_saved, sqlt_saved, last_store, last_store_cs,
                   shut_since_init, pool_vars, ext_vars>>

\* mutant: shutdown always goes to the ClientServer driver
ShutdownCalls_AlwaysPsql(m) ==
    <<DriverCall("psql", "shutdown", NoArg, NoArg, FALSE, <<>>)>>

\* db.shutdown(): psql.shutdown() for POSTGRES, nothing for SQLITE
ShutdownCalls(m) ==
    IF m = POSTGRES THEN <<DriverCall("psql", "shutdown", NoArg, NoArg, FALSE, <<>>)>>
    ELSE <<>>

shutdown ==
    /\ Finish(Call("shutdown", NoArg, NoArg),
              IF db_module = None THEN NotInitialized ELSE Ok(<<>>, NoArg),
              ShutdownCalls(db_module), <<>>)
    /\ shut_since_init' = (db_module /= None)
    /\ UNCHANGED <<db_module, psql_saved, sqlt_saved, last_store, last_store_cs,
                   pool_vars, ext_vars>>

\* ------------------------------------- ClientServer connection-scoping middleware
\* One request per task; the middleware checks a connection out of the pool, puts
\* it on the request's state, runs the handler and gives the connection back in a
\* guaranteed-cleanup block.
ExitPaths == {"return", "raise", "timeout", "cancel"}

\* mutant: a checked-out connection stays available
CheckedOut_StillFree(free, c) == free

\* mutant: the cleanup is skipped when the task is cancelled
Released_SkipOnCancel(free, c, how) == IF how = "cancel" THEN free ELSE free \cup {c}

\* the pool after connection c has been checked out
CheckedOut(free, c) == free \ {c}

\* the pool after the cleanup block has given connection c back; how is the
\* handler's exit path
Released(free, c, how) == free \cup {c}

\* the request enters the middleware and asks the pool for a connection
Arrive(r) ==
    /\ pc[r] = "idle"
    /\ pc' = [pc EXCEPT ![r] = "acquiring"]
    /\ exit_path' = [exit_path EXCEPT ![r] = NoArg]
    /\ UNCHANGED <<pool_free, conn, facade_vars, ext_vars>>

\* the pool hands out a free connection; it goes on the request's state
Acquire(r) ==
    /\ pc[r] = "acquiring"
    /\ \E c \in pool_free :
        /\ pool_free' = CheckedOut(pool_free, c)
        /\ conn' = [conn EXCEPT ![r] = c]
    /\ pc' = [pc EXCEPT ![r] = "handler"]
    /\ UNCHANGED <<exit_path, facade_vars, ext_vars>>

\* a saturated pool: the bounded wait ends in a timeout failure, no connection held
AcquireTimeout(r) ==
    /\ pc[r] = "acquiring"
    /\ pool_free = {}
    /\ pc' = [pc EXCEPT ![r] = "done"]
    /\ exit_path' = [exit_path EXCEPT ![r] = "pool_timeout"]
    /\ UNCHANGED <<pool_free, conn, facade_vars, ext_vars>>

\* the handler ends: it returns, raises, times out, or its task is cancelled
HandlerExit(r) ==
    /\ pc[r] = "handler"
    /\ \E how \in ExitPaths : exit_path' = [exit_path EXCEPT ![r] = how]
    /\ pc' = [pc EXCEPT ![r] = "releasing"]
    /\ UNCHANGED <<pool_free, conn, facade_vars, ext_vars>>

\* the cleanup block: the connection goes back to the pool, the request is over
Release(r) ==
    /\ pc[r] = "releasing"
    /\ pool_free' = Released(pool_free, conn[r], exit_path[r])
    /\ conn' = [conn EXCEPT ![r] = NoConn]
    /\ pc' = [pc EXCEPT ![r] = "done"]
    /\ UNCHANGED <<exit_path, facade_vars, ext_vars>>

\* the next request served by the same task slot
NextRequest(r) ==
    /\ pc[r] = "done"
    /\ pc' = [pc EXCEPT ![r] = "idle"]
    /\ UNCHANGED <<pool_free, conn, exit_path, facade_vars, ext_vars>>

\* the columns of a backend-native record, in the backend's order, and the field
\* names a handler asks a Row for ("key" is no column)
Columns == <<"id", "name">>
FieldNames == {"id", "name", "key"}
RowRecords == [id : 1..MaxId, name : {"a", "b"}]
RowIds == {1, 2}

\* the wrapped record's own accessors
ColumnsOf(rec) == SelectSeq(Columns, LAMBDA c : c \in DOMAIN rec)
NativeGetAttr(rec, name) == IF name \in DOMAIN rec THEN rec[name] ELSE "AttributeError"
NativeGetItem(rec, key) == IF key \in DOMAIN rec THEN rec[key] ELSE "KeyError"
NativeContains(rec, key) == key \in DOMAIN rec
NativeKeys(rec) == ColumnsOf(rec)
NativeValues(rec) == [i \in 1..Len(ColumnsOf(rec)) |-> rec[ColumnsOf(rec)[i]]]
NativeItems(rec) ==
    [i \in 1..Len(ColumnsOf(rec)) |-> <<ColumnsOf(rec)[i], rec[ColumnsOf(rec)[i]]>>]

\* mutant: keys() loses the record's column order
Row_keys_Reversed(row) ==
    [i \in 1..Len(NativeKeys(row.row_data)) |->
        NativeKeys(row.row_data)[Len(NativeKeys(row.row_data)) + 1 - i]]

\* db.Row: attribute access, key access, membership test, keys(), values(), items()
Row_getattr(row, name) == NativeGetAttr(row.row_data, name)
Row_getitem(row, key) == NativeGetItem(row.row_data, key)
Row_contains(row, key) == NativeContains(row.row_data, key)
Row_keys(row) == NativeKeys(row.row_data)
Row_values(row) == NativeValues(row.row_data)
Row_items(row) == NativeItems(row.row_data)

ReadOps == {"getattr", "getitem", "contains"}
ViewOps == {"keys", "values", "items"}

\* what a read access on a Row returns
RowRead(row, op, key) ==
    CASE op = "getattr" -> Row_getattr(row, key)
      [] op = "getitem" -> Row_getitem(row, key)
      [] op = "contains" -> Row_contains(row, key)
      [] op = "keys" -> Row_keys(row)
      [] op = "values" -> Row_values(row)
      [] op = "items" -> Row_items(row)

\* the Row after a read access: no accessor writes to the wrapped record
RowAfterRead(row, op, key) == row

\* a driver adapter wraps a record as a Row
WrapRecord(i, rec) ==
    /\ row_objs' = [row_objs EXCEPT ![i] = Row(rec)]
    /\ row_access' = [op |-> "wrap", on |-> i, key |-> NoArg]
    /\ row_result' = NoArg
    /\ UNCHANGED <<facade_vars, pool_vars, app_vars, timer_vars, config_vars>>

\* a handler reads a field of a Row, or tests a field name
ReadField(i, op, key) ==
    /\ row_access' = [op |-> op, on |-> i, key |-> key]
    /\ row_result' = RowRead(row_objs[i], op, key)
    /\ row_objs' = [row_objs EXCEPT ![i] = RowAfterRead(row_objs[i], op, key)]
    /\ UNCHANGED <<facade_vars, pool_vars, app_vars, timer_vars, config_vars>>

\* a handler takes keys(), values() or items() of a Row
ReadView(i, op) ==
    /\ row_access' = [op |-> op, on |-> i, key |-> NoArg]
    /\ row_result' = RowRead(row_objs[i], op, NoArg)
    /\ row_objs' = [row_objs EXCEPT ![i] = RowAfterRead(row_objs[i], op, NoArg)]
    /\ UNCHANGED <<facade_vars, pool_vars, app_vars, timer_vars, config_vars>>

NoAccess == [op |-> "none", on |-> 1, key |-> NoArg]

\* no Row in use
RowIdle ==
    /\ row_objs = [i \in RowIds |-> Row([id |-> 1, name |-> "a"])]
    /\ row_access = NoAccess
    /\ row_result = NoArg

\* two Rows, each wrapping some record
RowStart ==
    /\ row_objs \in [RowIds -> {Row(rec) : rec \in RowRecords}]
    /\ row_access = NoAccess
    /\ row_result = NoArg

\* ------------------------------------------------ systemtools: application bootstrap
AppIds == {"A", "B"}
Envs == {"test", "UnitTest"}
Versions == {"1.0.0", "0.1.0"}
Unset == "unset"
\* a db_module value that is neither SQLITE nor POSTGRES nor None
UnknownModule == "MYSQL"
DbArgs == {None, SQLITE, POSTGRES, UnknownModule}

NoApp == [state |-> "none", env |-> Unset, version |-> Unset, db |-> None,
          middleware |-> <<>>, on_startup |-> <<>>, on_shutdown |-> <<>>,
          routes |-> {}]

\* mutant: the SQLITE case falls through and installs the ClientServer parts too
InitDbModule_FallThrough(db_module_arg) ==
    CASE db_module_arg = SQLITE ->
            [raised |-> FALSE, middleware |-> <<"sqlt.ConnMiddleware", "psql.ConnMiddleware">>,
             on_startup |-> <<"psql.init">>, on_shutdown |-> <<"psql.shutdown">>]
      [] db_module_arg = POSTGRES ->
            [raised |-> FALSE, middleware |-> <<"psql.ConnMiddleware">>,
             on_startup |-> <<"psql.init">>, on_shutdown |-> <<"psql.shutdown">>]
      [] OTHER ->
            [raised |-> TRUE, middleware |-> <<>>, on_startup |-> <<>>,
             on_shutdown |-> <<>>]

\* init_db_module(db_module, app): what it adds to the application, or ValueError
InitDbModule(db_module_arg) ==
    CASE db_module_arg = SQLITE ->
            [raised |-> FALSE, middleware |-> <<"sqlt.ConnMiddleware">>,
             on_startup |-> <<>>, on_shutdown |-> <<>>]
      [] db_module_arg = POSTGRES ->
            [raised |-> FALSE, middleware |-> <<"psql.ConnMiddleware">>,
             on_startup |-> <<"psql.init">>, on_shutdown |-> <<"psql.shutdown">>]
      [] OTHER ->
            [raised |-> TRUE, middleware |-> <<>>, on_startup |-> <<>>,
             on_shutdown |-> <<>>]

NoDbModule == [raised |-> FALSE, middleware |-> <<>>, on_startup |-> <<>>,
               on_shutdown |-> <<>>]

\* create_fastapi_app(env, version, db_module); cors: the configuration has
\* fastapi.cors_allow_origin. Middleware is listed in the order it is added.
create_fastapi_app(a, env, version, db_module_arg, cors) ==
    LET added == IF db_module_arg = None THEN NoDbModule ELSE InitDbModule(db_module_arg)
        corsmw == IF cors THEN <<"CORSMiddleware">> ELSE <<>>
    IN  /\ apps[a].state = "none"
        /\ APP_ENV' = env
        /\ APP_VERSION' = version
        /\ IF added.raised
           THEN /\ boot_result' = "ValueError"
                /\ apps' = [apps EXCEPT ![a] =
                       [state |-> "failed", env |-> env, version |-> version,
                        db |-> db_module_arg, middleware |-> corsmw,
                        on_startup |-> <<>>, on_shutdown |-> <<>>, routes |-> {"/health"}]]
           ELSE /\ boot_result' = "ok"
                /\ apps' = [apps EXCEPT ![a] =
                       [state |-> "built", env |-> env, version |-> version,
                        db |-> db_module_arg,
                        middleware |-> corsmw \o added.middleware \o <<"TimerMiddleware">>,
                        on_startup |-> added.on_startup,
                        on_shutdown |-> added.on_shutdown, routes |-> {"/health"}]]
        /\ UNCHANGED <<psql_inited, handler_app, health_resp, facade_vars, pool_vars,
                       row_vars, timer_vars, config_vars>>

\* the application starts: its startup event handlers run, then it serves requests
Startup(a) ==
    /\ apps[a].state = "built"
    /\ apps' = [apps EXCEPT ![a].state = "serving"]
    /\ psql_inited' = (psql_inited \/ apps[a].on_startup = <<"psql.init">>)
    /\ UNCHANGED <<APP_ENV, APP_VERSION, boot_result, handler_app, health_resp,
                   facade_vars, pool_vars, row_vars, timer_vars, config_vars>>

\* a request handler of a serving application calls db.execute(name, params)
HandlerExecute(a, name, params) ==
    /\ apps[a].state = "serving"
    /\ CASE db_module = POSTGRES -> ExecutePostgres(name, params)
         [] db_module = SQLITE -> ExecuteSqlite(name, params)
         [] OTHER -> RaiseNotInitialized("execute", name, params)
    /\ handler_app' = a
    /\ UNCHANGED <<db_module, psql_saved, sqlt_saved, last_store, last_store_cs,
                   shut_since_init, pool_vars, row_vars, timer_vars, config_vars,
                   apps, APP_ENV, APP_VERSION,
                   boot_result, psql_inited, health_resp>>

\* health_handler: GET /health on a serving application
HealthResponse(a) ==
    [app |-> a, status_code |-> 200, status |-> "UP", version |-> APP_VERSION,
     env |-> APP_ENV, cache_control |-> "no-store"]

health_handler(a) ==
    /\ apps[a].state = "serving"
    /\ "/health" \in apps[a].routes
    /\ health_resp' = HealthResponse(a)
    /\ UNCHANGED <<apps, APP_ENV, APP_VERSION, boot_result, psql_inited, handler_app,
                   facade_vars, pool_vars, row_vars, timer_vars, config_vars>>

NoHealth == [app |-> NoArg, status_code |-> 0, status |-> NoArg, version |-> NoArg,
             env |-> NoArg, cache_control |-> NoArg]

\* no application built
AppIdle ==
    /\ apps = [a \in AppIds |-> NoApp]
    /\ APP_ENV = Unset
    /\ APP_VERSION = Unset
    /\ boot_result = NoArg
    /\ psql_inited = FALSE
    /\ handler_app = NoArg
    /\ health_resp = NoHealth

\* ------------------------------------------------ systemtools: TimerMiddleware
\* the most messages a wrapped application sends for one call
MaxMsgs == 2
\* the longest request path the log prints in full
PathLimit == 200
\* a request path longer than PathLimit
LongPath == "/items/aaaaaaaaaaaaaaaaaaaaaaaaaaaaaaaaaaaaaaaaaaaaaaaaaaaaaaaaaaaaaaaaaaaaaaaaaaaaaaaaaaaaaaaaaaaaaaaaaaaaaaaaaaaaaaaaaaaaaaaaaaaaaaaaaaaaaaaaaaaaaaaaaaaaaaaaaaaaaaaaaaaaaaaaaaaaaaaaaaaaaaaaaaaaaaaaaaaaaaaa"
ScopeTypes == {"http", "websocket", "lifespan"}
Paths == {"/health", "/items", LongPath}
QueryStrings == {"", "q=1"}
\* the ASGI scopes a server calls the middleware with; a lifespan scope has no
\* path, query string or method
Scopes ==
    [type : {"http", "websocket"}, path : Paths, query_string : QueryStrings,
     method : {"GET"}]
    \cup {[type |-> "lifespan", path |-> NoArg, query_string |-> NoArg,
           method |-> NoArg]}
\* the status codes a wrapped application answers with, as the log prints them
Statuses == {"200", "404"}
\* the messages a wrapped application sends for a scope
MsgsFor(scope) ==
    IF scope.type = "http"
    THEN {[type |-> "http.response.start", status |-> st] : st \in Statuses}
         \cup {[type |-> "http.response.body", status |-> NoArg]}
    ELSE {[type |-> scope.type \o ".event", status |-> NoArg]}
\* how the wrapped application finishes: it returns, raises an Exception, or
\* raises a BaseException that is no Exception (asyncio.CancelledError)
AppExits == {"return", "Exception", "BaseException"}

\* the negation of the pass-through test at the top of __call__
Logged(scope) == ~(scope.type /= "http" \/ scope.path = "/health")

\* the path as the log lines print it: with the query string, cut at PathLimit
DisplayPath(scope) ==
    LET path == IF scope.query_string /= ""
                THEN scope.path \o "?" \o scope.query_string
                ELSE scope.path
    IN  IF Len(path) > PathLimit THEN SubSeq(path, 1, PathLimit) \o "..." ELSE path

StartLine(scope) ==
    [line |-> "START", method |-> scope.method, path |-> DisplayPath(scope),
     status |-> NoArg]
EndLine(scope, status) ==
    [line |-> "END", method |-> scope.method, path |-> DisplayPath(scope),
     status |-> status]

\* mutant: send_wrapper forwards the message without noting the status
SendWrapper_Forget(status, response) == status

\* send_wrapper: the status_code local after the application sent response
SendWrapper(status, response) ==
    IF response.type = "http.response.start" THEN response.status ELSE status

\* the status_code local when the finally block logs the END line
StatusAtExit(status, how) == IF how = "Exception" THEN "500" ELSE status

\* __call__ up to the point where the wrapped application runs
TimerCall(scope) ==
    /\ timer_pc /= "app"
    /\ timer_pc' = "app"
    /\ timer_scope' = scope
    /\ status_code' = "???"
    /\ log_lines' = IF Logged(scope) THEN <<StartLine(scope)>> ELSE <<>>
    /\ app_send' = IF Logged(scope) THEN "send_wrapper" ELSE "send"
    /\ app_msgs' = <<>>
    /\ sent_msgs' = <<>>
    /\ app_exit' = NoArg
    /\ UNCHANGED <<facade_vars, pool_vars, row_vars, app_vars, config_vars>>

\* the wrapped application sends a message through the send it was given
AppSend(response) ==
    /\ timer_pc = "app"
    /\ Len(app_msgs) < MaxMsgs
    /\ app_msgs' = Append(app_msgs, response)
    /\ sent_msgs' = Append(sent_msgs, response)
    /\ status_code' = IF app_send = "send_wrapper"
                      THEN SendWrapper(status_code, response)
                      ELSE status_code
    /\ UNCHANGED <<timer_pc, timer_scope, log_lines, app_send, app_exit,
                   facade_vars, pool_vars, row_vars, app_vars, config_vars>>

\* the wrapped application finishes; the except and finally blocks run
AppFinish(how) ==
    /\ timer_pc = "app"
    /\ timer_pc' = "done"
    /\ app_exit' = how
    /\ IF app_send = "send_wrapper"
       THEN /\ status_code' = StatusAtExit(status_code, how)
            /\ log_lines' = Append(log_lines,
                                   EndLine(timer_scope, StatusAtExit(status_code, how)))
       ELSE UNCHANGED <<status_code, log_lines>>
    /\ UNCHANGED <<timer_scope, app_send, app_msgs, sent_msgs,
                   facade_vars, pool_vars, row_vars, app_vars, config_vars>>

NoScope == [type |-> NoArg, path |-> NoArg, query_string |-> NoArg, method |-> NoArg]

\* the middleware has not been called
TimerIdle ==
    /\ timer_pc = "idle"
    /\ timer_scope = NoScope
    /\ status_code = "???"
    /\ log_lines = <<>>
    /\ app_send = NoArg
    /\ app_msgs = <<>>
    /\ sent_msgs = <<>>
    /\ app_exit = NoArg

\* ---------------------------------------------------------------- config
\* the most keys a table of a configuration file holds
MaxKeys == 2
UpperCase == "ABCDEFGHIJKLMNOPQRSTUVWXYZ"
LowerCase == "abcdefghijklmnopqrstuvwxyz"

\* str.casefold() of a one-character string (ASCII)
CasefoldChar(c) ==
    IF \E i \in 1..Len(UpperCase) : SubSeq(UpperCase, i, i) = c
    THEN LET i == CHOOSE i \in 1..Len(UpperCase) : SubSeq(UpperCase, i, i) = c
         IN  SubSeq(LowerCase, i, i)
    ELSE c

RECURSIVE Casefold(_)
\* str.casefold()
Casefold(str) ==
    IF Len(str) = 0 THEN ""
    ELSE CasefoldChar(SubSeq(str, 1, 1)) \o Casefold(SubSeq(str, 2, Len(str)))

RECURSIVE SplitFrom(_, _, _)
\* the segments of str from position i on, acc being the segment read so far
SplitFrom(str, i, acc) ==
    IF i > Len(str) THEN <<acc>>
    ELSE IF SubSeq(str, i, i) = "." THEN <<acc>> \o SplitFrom(str, i + 1, "")
    ELSE SplitFrom(str, i + 1, acc \o SubSeq(str, i, i))

\* full_key.split(".")
Split(str) == SplitFrom(str, 1, "")

\* Python's  a in b  for two strings
IsSubstring(a, b) ==
    \E i \in 1..(Len(b) + 1) : i + Len(a) - 1 <= Len(b) /\ SubSeq(b, i, i + Len(a) - 1) = a

\* configuration values: integers and strings, as TOML gives them
IntVal(repr) == [type |-> "int", repr |-> repr]
StrVal(repr) == [type |-> "str", repr |-> repr]
NoVal == [type |-> "none", repr |-> NoArg]
EmptyDict == [k \in {} |-> NoVal]

\* a node of a nested dict: a value, or a dict of nodes
Leaf(v) == [tbl |-> FALSE, val |-> v, kids |-> EmptyDict]
Table(kids) == [tbl |-> TRUE, val |-> NoVal, kids |-> kids]

\* the key, value pairs of a parsed file, in file order (dict.items() order)
Item(key, node) == [key |-> key, node |-> node]
TableNames == {"db", "DB"}
LeafKeys == {"port", "Port", "host"}
ValuesOf(key) == IF key = "host" THEN {StrVal("localhost")} ELSE {IntVal("1"), IntVal("2")}
LeafItems == {Item(k, Leaf(v)) : k \in LeafKeys, v \in UNION {ValuesOf(k) : k \in LeafKeys}}
TableBodies ==
    {body \in UNION {[1..n -> LeafItems] : n \in 1..MaxKeys} :
        /\ \A i \in 1..Len(body) : body[i].node.val \in ValuesOf(body[i].key)
        /\ \A i, j \in 1..Len(body) : i /= j => body[i].key /= body[j].key}
\* a parsed file: nothing, or one table of leaf values
Files == {<<>>} \cup {<<Item(t, Table(body))>> : t \in TableNames, body \in TableBodies}

\* dest[key] = node
Put(dest, key, node) ==
    [k \in DOMAIN dest \cup {key} |-> IF k = key THEN node ELSE dest[k]]

\* dest.setdefault(key, {})
SetDefault(dest, key) == IF key \in DOMAIN dest THEN dest[key] ELSE Table(EmptyDict)

RECURSIVE merge_into(_, _)
\* _merge_into(src, dest): dest after the loop over src.items()
merge_into(src, dest) ==
    IF src = <<>> THEN dest
    ELSE LET key == Head(src).key
             value == Head(src).node
         IN  IF value.tbl
             THEN merge_into(Tail(src),
                    Put(dest, key,
                        Table(merge_into(value.kids, SetDefault(dest, key).kids))))
             ELSE merge_into(Tail(src), Put(dest, Casefold(key), value))

\* what config.get returns or raises
Returned(node) == [kind |-> "return", msg |-> "", node |-> node]
Raised(kind, msg) == [kind |-> kind, msg |-> msg, node |-> Leaf(NoVal)]
KeyNotPresent(full_key) == Raised("Exception", "Config key not present: " \o full_key)

\* one round of the loop in get:  key not in vals,  then  vals[key.casefold()]
GetStep(vals, key) ==
    CASE vals.tbl ->
            IF key \notin DOMAIN vals.kids THEN "not present"
            ELSE IF Casefold(key) \notin DOMAIN vals.kids THEN "KeyError"
            ELSE "descend"
      [] vals.val.type = "str" ->
            IF ~IsSubstring(key, vals.val.repr) THEN "not present" ELSE "TypeError"
      [] OTHER -> "TypeError"

RECURSIVE Walk(_, _, _)
\* the loop of get over the remaining keys
Walk(vals, keys, full_key) ==
    IF keys = <<>> THEN Returned(vals)
    ELSE CASE GetStep(vals, Head(keys)) = "descend" ->
                 Walk(vals.kids[Casefold(Head(keys))], Tail(keys), full_key)
           [] GetStep(vals, Head(keys)) = "not present" -> KeyNotPresent(full_key)
           [] OTHER -> Raised(GetStep(vals, Head(keys)), Casefold(Head(keys)))

GetResult(config, full_key) == Walk(Table(config), Split(full_key), full_key)

\* the keys application code asks for
FullKeys == {"db.port", "db.Port", "DB.port", "DB.Port", "db.host", "db",
             "db.port.x", "db.host.local", "db.host.x", "db.user", "app"}

NoFiles == [loaded |-> FALSE, base |-> <<>>, env_given |-> FALSE, env |-> <<>>]

\* config.init(env): base.toml is loaded, then the env file when env is given
config_init(base, env_given, env) ==
    /\ ~cfg_files.loaded
    /\ cfg_files' = [loaded |-> TRUE, base |-> base, env_given |-> env_given,
                     env |-> IF env_given THEN env ELSE <<>>]
    /\ CONFIG' = IF env_given THEN merge_into(env, merge_into(base, CONFIG))
                 ELSE merge_into(base, CONFIG)
    /\ UNCHANGED <<cfg_get, cfg_result, facade_vars, pool_vars, row_vars, app_vars,
                   timer_vars>>

\* config.get(full_key)
config_get(full_key) ==
    /\ cfg_get' = full_key
    /\ cfg_result' = GetResult(CONFIG, full_key)
    /\ UNCHANGED <<CONFIG, cfg_files, facade_vars, pool_vars, row_vars, app_vars,
                   timer_vars>>

\* nothing loaded, nothing asked
ConfigIdle ==
    /\ CONFIG = EmptyDict
    /\ cfg_files = NoFiles
    /\ cfg_get = NoArg
    /\ cfg_result = Returned(Leaf(NoVal))

ExtIdle == RowIdle /\ AppIdle /\ TimerIdle /\ ConfigIdle

\* no backend activated, no request in the pipeline
CoreIdle ==
    /\ db_module = None
    /\ psql_saved = [n \in Names |-> NoSql]
    /\ sqlt_saved = [n \in Names |-> NoSql]
    /\ call = NoCall
    /\ outcome = Ok(<<>>, NoArg)
    /\ driver_calls = <<>>
    /\ sql_run = <<>>
    /\ last_store = [n \in Names |-> NoSql]
    /\ last_store_cs = [n \in Names |-> NoSql]
    /\ shut_since_init = FALSE
    /\ pool_free = Conns
    /\ pc = [r \in Requests |-> "idle"]
    /\ conn = [r \in Requests |-> NoConn]
    /\ exit_path = [r \in Requests |-> NoArg]

InitRow == CoreIdle /\ RowStart /\ AppIdle /\ TimerIdle /\ ConfigIdle

NextRow ==
    \/ \E i \in RowIds, rec \in RowRecords : WrapRecord(i, rec)
    \/ \E i \in RowIds, op \in ReadOps, key \in FieldNames : ReadField(i, op, key)
    \/ \E i \in RowIds, op \in ViewOps : ReadView(i, op)

SpecRow == InitRow /\ [][NextRow]_vars


\* application startup with db_module = POSTGRES: psql.init has opened the pool
\* and psql.ConnMiddleware is in the request pipeline
InitPool ==
    /\ db_module = POSTGRES
    /\ psql_saved = [n \in Names |-> NoSql]
    /\ sqlt_saved = [n \in Names |-> NoSql]
    /\ call = [op |-> "init", a1 |-> POSTGRES, a2 |-> NoArg, active |-> None]
    /\ outcome = Ok(<<>>, "psql.init()")
    /\ driver_calls = <<DriverCall("psql", "init", NoArg, NoArg, FALSE, <<>>)>>
    /\ sql_run = <<>>
    /\ last_store = [n \in Names |-> NoSql]
    /\ last_store_cs = [n \in Names |-> NoSql]
    /\ shut_since_init = FALSE
    /\ pool_free = Conns
    /\ pc = [r \in Requests |-> "idle"]
    /\ conn = [r \in Requests |-> NoConn]
    /\ exit_path = [r \in Requests |-> NoArg]
    /\ ExtIdle

NextPool ==
    \/ \E r \in Requests : Arrive(r)
    \/ \E r \in Requests : Acquire(r)
    \/ \E r \in Requests : AcquireTimeout(r)
    \/ \E r \in Requests : HandlerExit(r)
    \/ \E r \in Requests : Release(r)
    \/ \E r \in Requests : NextRequest(r)

SpecPool == InitPool /\ [][NextPool]_vars

Init == CoreIdle /\ ExtIdle

Next ==
    \/ \E b \in DBModule : init(b)
    \/ \E n \in Names, s \in Sqls : store(n, s)
    \/ get_middleware
    \/ \E n \in Names, p \in Params : execute(n, p)
    \/ \E s \in Sqls, p \in Params : execute_sql(s, p)
    \/ \E r \in Requests : transaction(r)
    \/ shutdown

Spec == Init /\ [][Next]_vars

\* the process: applications are built and started, a handler calls the Facade,
\* the application code may call db.init itself
NextApp ==
    \/ \E a \in AppIds, env \in Envs, version \in Versions, d \in DbArgs, cors \in BOOLEAN :
          create_fastapi_app(a, env, version, d, cors)
    \/ \E a \in AppIds : Startup(a)
    \/ \E a \in AppIds, n \in Names, p \in Params : HandlerExecute(a, n, p)
    \/ \E a \in AppIds : health_handler(a)
    \/ \E b \in DBModule : init(b)

SpecApp == Init /\ [][NextApp]_vars

\* requests pass through TimerMiddleware, one call after the other
NextTimer ==
    \/ \E scope \in Scopes : TimerCall(scope)
    \/ \E response \in MsgsFor(timer_scope) : AppSend(response)
    \/ \E how \in AppExits : AppFinish(how)

SpecTimer == Init /\ [][NextTimer]_vars

\* the configuration is loaded once at startup and read by application code
NextConfig ==
    \/ \E base \in Files, env_given \in BOOLEAN, env \in Files :
          config_init(base, env_given, env)
    \/ \E full_key \in FullKeys : config_get(full_key)

SpecConfig == Init /\ [][NextConfig]_vars


\* ================================================================== claims
FacadeOps == {"execute", "execute_sql", "transaction", "get_middleware"}

\* C1: execute, execute_sql, transaction and get_middleware called while no
\* backend is active fail with the "not initialized" DatabaseError, and no
\* operation of either driver is invoked (and no SQL is run).
C1_NotInitializedFails ==
    (call.op \in FacadeOps /\ call.active = None)
        => /\ outcome = NotInitialized
           /\ driver_calls = <<>>
           /\ sql_run = <<>>

C1_Witness ==
    /\ call.op = "get_middleware"
    /\ call.active = None
    /\ outcome.kind = "DatabaseError"
    /\ outcome.msg = "not initialized"

InFlight == {r \in Requests : pc[r] \in {"handler", "releasing"}}

\* C2: on every exit path of the handler the connection checked out for the
\* request is back in the pool once the request is over: a request that is over
\* holds no connection, and the available count is the pool size less the
\* requests in flight, so it is the pool size again when all are over.
C2_ConnectionReleased ==
    /\ \A r \in Requests : pc[r] \in {"idle", "acquiring", "done"} => conn[r] = NoConn
    /\ Cardinality(pool_free) = PoolSize - Cardinality(InFlight)
    /\ (InFlight = {} => pool_free = Conns)

C2_Witness ==
    /\ \A r \in Requests : pc[r] = "done"
    /\ \E r1, r2, r3 \in Requests :
        /\ exit_path[r1] = "raise"
        /\ exit_path[r2] = "cancel"
        /\ exit_path[r3] = "timeout"
    /\ pool_free = Conns

Holders == {r \in Requests : conn[r] /= NoConn}

\* C3: no connection is held by two requests at once, a held connection is not
\* available in the pool, a completed request holds none, and the connections
\* checked out at once never exceed the pool size.
C3_ExclusiveBounded ==
    /\ \A r1, r2 \in Holders : r1 /= r2 => conn[r1] /= conn[r2]
    /\ \A r \in Holders : conn[r] \notin pool_free
    /\ \A r \in Requests : pc[r] = "done" => conn[r] = NoConn
    /\ Cardinality(Holders) <= PoolSize

C3_Witness ==
    /\ Cardinality(Holders) = PoolSize
    /\ \E r \in Requests : pc[r] = "acquiring"
    /\ \E r \in Requests : pc[r] = "releasing"

ResolvedByCall == IF sql_run = <<>> THEN NoSql ELSE sql_run[1]

\* C5 as stated: whenever execute resolves a name for which store has been
\* called, it resolves the SQL text of the most recent store call for that name.
C5_Original ==
    (call.op = "execute" /\ call.active = POSTGRES /\ last_store[call.a1] /= NoSql)
        => ResolvedByCall = last_store[call.a1]

\* C5 amended: the ClientServer registry holds, for every name, the SQL text of
\* the most recent store call made for it while the ClientServer backend was
\* active (nothing if there was none), and that is what execute resolves; store
\* calls made with no backend or the Embedded backend active do not change it.
C5_ResolvesLatestClientServerStore ==
    /\ \A n \in Names : Resolve(psql_saved, n) = last_store_cs[n]
    /\ (call.op = "execute" /\ call.active = POSTGRES)
        => ResolvedByCall = last_store_cs[call.a1]

C5_Witness ==
    /\ call.op = "execute"
    /\ call.active = POSTGRES
    /\ sql_run = <<"s2">>
    /\ last_store[call.a1] = "s1"
    /\ \E n \in Names : n /= call.a1 /\ psql_saved[n] = "s1"

\* C6 as stated: store never fails and makes no driver call.
C6_Original ==
    call.op = "store" => outcome.kind = "ok" /\ driver_calls = <<>>

\* C6 amended: store with no backend active fails with DatabaseError and changes
\* no registry; with a backend active it succeeds, and its only effect is to
\* insert or overwrite the entry for the name in the active driver's registry.
C6_StoreUpsertsActiveRegistry ==
    [][call'.op = "store" =>
        /\ db_module' = db_module
        /\ pool_vars' = pool_vars
        /\ CASE db_module = None ->
                   /\ outcome'.kind = "DatabaseError"
                   /\ psql_saved' = psql_saved
                   /\ sqlt_saved' = sqlt_saved
             [] db_module = POSTGRES ->
                   /\ outcome'.kind = "ok"
                   /\ psql_saved' = [psql_saved EXCEPT ![call'.a1] = call'.a2]
                   /\ sqlt_saved' = sqlt_saved
             [] db_module = SQLITE ->
                   /\ outcome'.kind = "ok"
                   /\ sqlt_saved' = [sqlt_saved EXCEPT ![call'.a1] = call'.a2]
                   /\ psql_saved' = psql_saved]_vars

C6_Witness ==
    /\ call.op = "store"
    /\ call.active = SQLITE
    /\ outcome.kind = "ok"
    /\ sqlt_saved[call.a1] = call.a2
    /\ psql_saved[call.a1] \notin {NoSql, call.a2}

\* C7: store with no backend active raises DatabaseError and calls no driver;
\* with backend b active it calls the store operation of b's driver exactly
\* once, with the same (name, sql).
C7_StoreDispatch ==
    call.op = "store" =>
        IF call.active = None
        THEN outcome.kind = "DatabaseError" /\ driver_calls = <<>>
        ELSE /\ Len(driver_calls) = 1
             /\ driver_calls[1].drv = DriverOf(call.active)
             /\ driver_calls[1].op = "store"
             /\ driver_calls[1].a1 = call.a1
             /\ driver_calls[1].a2 = call.a2

C7_Witness ==
    /\ call.op = "store"
    /\ call.active = SQLITE
    /\ Len(driver_calls) = 1
    /\ driver_calls[1].drv = "sqlt"

\* C8: with the ClientServer backend active, execute(name, params) calls the
\* driver's execute exactly once with (name, params, True), and when the driver
\* returns records the result has one Row per record, in the same order.
C8_ExecutePostgres ==
    (call.op = "execute" /\ call.active = POSTGRES) =>
        /\ Len(driver_calls) = 1
        /\ driver_calls[1].drv = "psql"
        /\ driver_calls[1].op = "execute"
        /\ driver_calls[1].a1 = call.a1
        /\ driver_calls[1].a2 = call.a2
        /\ driver_calls[1].flag = TRUE
        /\ outcome.kind = "ok" =>
            /\ Len(outcome.rows) = Len(driver_calls[1].ret)
            /\ \A i \in 1..Len(outcome.rows) :
                   outcome.rows[i].row_data = driver_calls[1].ret[i]

C8_Witness ==
    /\ call.op = "execute"
    /\ call.active = POSTGRES
    /\ outcome.kind = "ok"
    /\ Len(outcome.rows) = 2
    /\ outcome.rows[1] /= outcome.rows[2]

\* C9: with the ClientServer backend active, execute with a name absent from the
\* registry fails with NotFoundError and runs no SQL against the backend.
C9_MissingNameNotFound ==
    (call.op = "execute" /\ call.active = POSTGRES /\ Resolve(psql_saved, call.a1) = NoSql)
        => outcome = NotFound /\ sql_run = <<>>

C9_Witness ==
    /\ call.op = "execute"
    /\ call.active = POSTGRES
    /\ Resolve(psql_saved, call.a1) = NoSql
    /\ \E n \in Names : Resolve(psql_saved, n) /= NoSql
    /\ outcome.kind = "NotFoundError"

\* C10 as stated: the active backend never changes from one variant to the
\* other without a shutdown in between.
C10_Original ==
    [][(db_module \in DBModule /\ db_module' \in DBModule /\ db_module' /= db_module)
          => shut_since_init]_vars

\* C10 amended: the active backend is None until the first init, and after
\* every init(b) it is b (get_active_module() = b, is_initialized() true), also
\* when the other variant was active and no shutdown came in between.
C10_InitSetsActive ==
    /\ [][(get_active_module = None /\ get_active_module' /= None)
             => call'.op = "init"]_vars
    /\ [](call.op = "init" => get_active_module = call.a1 /\ is_initialized)

C10_Witness ==
    /\ call.op = "init"
    /\ call.active = POSTGRES
    /\ get_active_module = SQLITE
    /\ is_initialized

\* the result of the most recent call is the one driver call's result: its
\* records each wrapped as a Row, in order
ReturnsWrappedDriverRecords ==
    /\ Len(outcome.rows) = Len(driver_calls[1].ret)
    /\ \A i \in 1..Len(outcome.rows) : outcome.rows[i].row_data = driver_calls[1].ret[i]

\* exactly one driver call was made: operation op of backend b's driver, with the
\* caller's arguments
OnlyDriverCall(b, op) ==
    /\ Len(driver_calls) = 1
    /\ driver_calls[1].drv = DriverOf(b)
    /\ driver_calls[1].op = op
    /\ driver_calls[1].a1 = call.a1
    /\ driver_calls[1].a2 = call.a2

\* C11 as stated: with backend b active, execute_sql and transaction each invoke
\* the matching operation of b's driver and return that driver's result.
C11_Original ==
    (call.op \in {"execute_sql", "transaction"} /\ call.active \in DBModule)
        => OnlyDriverCall(call.active, call.op) /\ outcome.kind /= "DatabaseError"

\* C11 amended: with backend b active, execute_sql makes one execute_sql call on
\* b's driver with the same arguments and returns its records as Rows;
\* get_middleware returns b's ConnMiddleware; shutdown calls psql.shutdown once
\* for ClientServer and is a no-op for Embedded; transaction calls
\* psql.transaction(req) once and returns its handle for ClientServer, and for
\* Embedded it calls no driver and raises the not-implemented DatabaseError.
C11_DispatchToActiveDriver ==
    /\ (call.op = "execute_sql" /\ call.active \in DBModule) =>
          /\ OnlyDriverCall(call.active, "execute_sql")
          /\ outcome.kind \in {"ok", "BackendError"}
          /\ outcome.kind = "ok" => ReturnsWrappedDriverRecords
    /\ (call.op = "get_middleware" /\ call.active \in DBModule) =>
          /\ outcome = Ok(<<>>, IF call.active = POSTGRES THEN "psql.ConnMiddleware"
                                ELSE "sqlt.ConnMiddleware")
          /\ driver_calls = <<>>
    /\ (call.op = "shutdown" /\ call.active = POSTGRES) =>
          OnlyDriverCall(POSTGRES, "shutdown") /\ outcome.kind = "ok"
    /\ (call.op = "shutdown" /\ call.active = SQLITE) =>
          driver_calls = <<>> /\ outcome.kind = "ok"
    /\ (call.op = "transaction" /\ call.active = POSTGRES) =>
          OnlyDriverCall(POSTGRES, "transaction") /\ outcome = Ok(<<>>, "psql.transaction")
    /\ (call.op = "transaction" /\ call.active = SQLITE) =>
          driver_calls = <<>> /\ outcome = SqliteTransactionNotImplemented

C11_Witness ==
    /\ call.op = "execute_sql"
    /\ call.active = POSTGRES
    /\ call.a1 = "s2"
    /\ call.a2 = "p1"
    /\ outcome.kind = "ok"
    /\ Len(outcome.rows) = 2
    /\ outcome.rows[1] /= outcome.rows[2]

\* what the wrapped record itself gives for an access
NativeRead(rec, op, key) ==
    CASE op = "getattr" -> NativeGetAttr(rec, key)
      [] op = "getitem" -> NativeGetItem(rec, key)
      [] op = "contains" -> NativeContains(rec, key)
      [] op = "keys" -> NativeKeys(rec)
      [] op = "values" -> NativeValues(rec)
      [] op = "items" -> NativeItems(rec)

\* C12: every read access on a Row returns what the wrapped record gives for the
\* same field or call; no access changes a Row or its record; two Rows wrapping
\* the same record give equal keys(), values() and items().
C12_RowPureView ==
    /\ [](row_access.op \in ReadOps \cup ViewOps =>
            row_result = NativeRead(row_objs[row_access.on].row_data, row_access.op,
                                    row_access.key))
    /\ [][row_access'.op \in ReadOps \cup ViewOps => row_objs' = row_objs]_vars
    /\ [](\A i, j \in RowIds : row_objs[i].row_data = row_objs[j].row_data =>
            /\ Row_keys(row_objs[i]) = Row_keys(row_objs[j])
            /\ Row_values(row_objs[i]) = Row_values(row_objs[j])
            /\ Row_items(row_objs[i]) = Row_items(row_objs[j]))

C12_Witness ==
    /\ row_access.op = "items"
    /\ row_objs[1] = row_objs[2]
    /\ row_objs[1].row_data.id = 2
    /\ row_result = <<<<"id", 2>>, <<"name", "b">>>>

ConnMiddlewares == {"psql.ConnMiddleware", "sqlt.ConnMiddleware"}

\* the connection-scoping middleware in application a's pipeline, in order
InstalledConn(a) == SelectSeq(apps[a].middleware, LAMBDA m : m \in ConnMiddlewares)

\* C13 as stated: a Facade operation issued by a request handler of an
\* application bootstrapped with db_module b finds b as the active backend.
C13_Original ==
    (call.op = "execute" /\ handler_app \in AppIds /\ apps[handler_app].db \in DBModule)
        => call.active = apps[handler_app].db

\* C13 amended: bootstrapping with db_module b installs exactly b's
\* connection-scoping middleware, once, and nothing of the other backend; for
\* POSTGRES it registers psql.init as a startup handler, which has run before any
\* request is served, for SQLITE it initialises nothing; with db_module None
\* nothing is installed; any other value raises ValueError. Bootstrapping never
\* sets the Facade's active backend: only db.init does.
C13_BootstrapInstallsMiddleware ==
    /\ [](\A a \in AppIds :
            /\ apps[a].state \in {"built", "serving"} =>
                  /\ apps[a].db \in DBModule \cup {None}
                  /\ InstalledConn(a) =
                        CASE apps[a].db = SQLITE -> <<"sqlt.ConnMiddleware">>
                          [] apps[a].db = POSTGRES -> <<"psql.ConnMiddleware">>
                          [] OTHER -> <<>>
                  /\ apps[a].on_startup =
                        IF apps[a].db = POSTGRES THEN <<"psql.init">> ELSE <<>>
            /\ apps[a].state = "failed" => apps[a].db = UnknownModule
            /\ apps[a].db = UnknownModule => apps[a].state = "failed"
            /\ (apps[a].state = "serving" /\ apps[a].db = POSTGRES) => psql_inited)
    /\ [][apps' /= apps => db_module' = db_module]_vars
    /\ [][db_module' /= db_module => call'.op = "init"]_vars

C13_Witness ==
    /\ call.op = "execute"
    /\ handler_app = "A"
    /\ apps["A"].state = "serving"
    /\ apps["A"].db = POSTGRES
    /\ psql_inited
    /\ call.active = None
    /\ outcome = NotInitialized
    /\ apps["B"].state = "failed"
    /\ boot_result = "ValueError"

\* C14: GET /health on an application built by create_fastapi_app(env, version)
\* answers 200 with status "UP", that version, that env and Cache-Control:
\* no-store, after any sequence of create_fastapi_app calls.
C14_HealthReportsOwnApp ==
    health_resp.app \in AppIds =>
        /\ health_resp.status_code = 200
        /\ health_resp.status = "UP"
        /\ health_resp.cache_control = "no-store"
        /\ health_resp.version = apps[health_resp.app].version
        /\ health_resp.env = apps[health_resp.app].env

\* the http.response.start messages among the messages that reached send
StartsSent == SelectSeq(sent_msgs, LAMBDA m : m.type = "http.response.start")
LinesOf(kind) == SelectSeq(log_lines, LAMBDA l : l.line = kind)

\* C15 as stated: the END line of a logged request reports 500 when the wrapped
\* application raised, and otherwise the status of the http.response.start
\* message that was sent.
C15_Original ==
    (timer_pc = "done" /\ Logged(timer_scope)) =>
        /\ Len(log_lines) = 2
        /\ app_exit \in {"Exception", "BaseException"} => log_lines[2].status = "500"
        /\ (app_exit = "return" /\ StartsSent /= <<>>) =>
              log_lines[2].status = StartsSent[Len(StartsSent)].status

\* C15 amended: for an http request whose path is not /health the middleware
\* logs one START line before the wrapped application runs and one END line
\* when it has finished, whether it returned or raised; the END line reports
\* 500 when the application raised an Exception, and otherwise (it returned, or
\* raised a BaseException that is no Exception, such as a cancellation) the
\* status of the last http.response.start message sent, or "???" when none was
\* sent. For non-http scopes and /health requests it logs nothing and hands the
\* application the caller's own send. Every message reaches send unchanged.
C15_TimerLogsStartEnd ==
    /\ (timer_pc = "app" /\ Logged(timer_scope)) =>
          /\ log_lines = <<StartLine(timer_scope)>>
          /\ app_send = "send_wrapper"
    /\ (timer_pc = "done" /\ Logged(timer_scope)) =>
          /\ Len(log_lines) = 2
          /\ log_lines[1] = StartLine(timer_scope)
          /\ log_lines[2].line = "END"
          /\ log_lines[2].path = log_lines[1].path
          /\ log_lines[2].status =
                IF app_exit = "Exception" THEN "500"
                ELSE IF StartsSent /= <<>> THEN StartsSent[Len(StartsSent)].status
                ELSE "???"
    /\ (timer_pc /= "idle" /\ ~Logged(timer_scope)) =>
          /\ log_lines = <<>>
          /\ app_send = "send"
    /\ sent_msgs = app_msgs

C15_Witness ==
    /\ timer_pc = "done"
    /\ timer_scope.type = "http"
    /\ timer_scope.path = LongPath
    /\ app_exit = "BaseException"
    /\ Len(StartsSent) = 1
    /\ Len(LinesOf("START")) = 1
    /\ Len(LinesOf("END")) = 1
    /\ log_lines[2].status = "404"
    /\ Len(log_lines[2].path) = PathLimit + 3

\* the dotted paths that lead to a leaf value in a parsed file, as written there
PathsOf(file) ==
    IF file = <<>> THEN {}
    ELSE {file[1].key \o "." \o file[1].node.kids[i].key :
             i \in 1..Len(file[1].node.kids)}

\* the value a parsed file gives for one of its paths
ValueIn(file, path) ==
    LET i == CHOOSE i \in 1..Len(file[1].node.kids) :
                 file[1].key \o "." \o file[1].node.kids[i].key = path
    IN  file[1].node.kids[i].node.val

\* the env file's value when it defines the path, otherwise the base file's
MergedValue(files, path) ==
    IF path \in PathsOf(files.env) THEN ValueIn(files.env, path)
    ELSE ValueIn(files.base, path)

\* a step of config.get made after config.init
GetAfterInit == cfg_files.loaded /\ cfg_files' = cfg_files /\ CONFIG' = CONFIG

\* C16: after config.init has loaded the base file and then the env file,
\* config.get of every dotted path that leads to a leaf value in either file
\* returns the env file's value when the env file defines the path and the base
\* file's value otherwise.
C16_GetReturnsMergedValue ==
    [][(GetAfterInit /\ cfg_get' \in PathsOf(cfg_files.base) \cup PathsOf(cfg_files.env))
          => cfg_result' = Returned(Leaf(MergedValue(cfg_files, cfg_get')))]_vars

RECURSIVE LeadsTo(_, _)
\* the keys, taken as they are, lead from node to a value
LeadsTo(node, keys) ==
    IF keys = <<>> THEN TRUE
    ELSE /\ node.tbl
         /\ Head(keys) \in DOMAIN node.kids
         /\ LeadsTo(node.kids[Head(keys)], Tail(keys))

\* C17: config.get(full_key) for a dotted path that does not lead to a value in
\* CONFIG raises 'Config key not present: <full_key>', no other kind of error,
\* and no config.get call changes CONFIG.
C17_MissingKeyRaisesNotPresent ==
    [][/\ (cfg_files' = cfg_files /\ CONFIG' = CONFIG
             /\ ~LeadsTo(Table(CONFIG), Split(cfg_get')))
          => cfg_result' = KeyNotPresent(cfg_get')
       /\ cfg_files' = cfg_files => CONFIG' = CONFIG]_vars
====
